---- MODULE Spec2Model ----
(***************************************************************************)
(* ParkinPal voice-analysis backend (src/voice-backend/main.py).           *)
(*                                                                         *)
(* Times are integers in ticks of 0.1 ms (Ms(n) is n milliseconds), so the *)
(* 5 ms, 10 ms and 20 ms sampling grids and round() to whole milliseconds  *)
(* are exact integer arithmetic.  Decibels and Hertz are integers.         *)
(* Rounded results keep the code's decimals as scaled integers: the score  *)
(* in tenths, stability and decays in thousandths, jitter in               *)
(* ten-thousandths.                                                        *)
(***************************************************************************)
EXTENDS Integers, Sequences, FiniteSets

VARIABLES
    \* ---- the serving process (POST /analyze) ----
    server,          \* "booting" | "serving" | "failed"
    whisper_model,   \* the global _whisper_model: 0 is None, h >= 1 a handle
    loads,           \* number of WhisperModel(...) constructions so far
    pc,              \* request -> position in analyze()
    payload,         \* request -> the posted audio, as decode_audio sees it
    created,         \* request -> path mkstemp made for it (0: none)
    audio_path,      \* request -> analyze's local audio_path (0: None)
    files,           \* temporary files that exist
    model,           \* request -> handle get_whisper_model returned (0: none)
    transcribed,     \* request -> model.transcribe was called
    duration,        \* request -> sound.duration once loaded (-1: not loaded)
    raised,          \* request -> the exception raised inside the try block
    response,        \* request -> what the client receives
    \* ---- one call of an extractor, of the scorer or of the word builder ----
    segments,        \* recognizer output given to words_from_faster_whisper
    words,           \* the utterance: a sequence of WordBoundary
    sound,           \* the SignalProvider stub the extractor queries
    metrics,         \* the metrics bundle given to compute_score
    dur,             \* the duration given to compute_score
    values,          \* analyze_amplitude_jitter's list of kept samples
    called,          \* "no", or the function that has returned
    result           \* what it returned

pipeVars == <<server, whisper_model, loads, pc, payload, created, audio_path,
              files, model, transcribed, duration, raised, response>>

funVars == <<segments, words, sound, metrics, dur, values, called, result>>

vars == <<pipeVars, funVars>>

\* ------------------------------------------------------------------------
\* Units and small helpers
\* ------------------------------------------------------------------------

\* n milliseconds in ticks.
Ms(n) == n * 10

Max(a, b) == IF a >= b THEN a ELSE b

Min(a, b) == IF a <= b THEN a ELSE b

Abs(a) == IF a < 0 THEN -a ELSE a

\* ------------------------------------------------------------------------
\* POST /analyze
\* ------------------------------------------------------------------------

\* Concurrent requests (FastAPI runs a sync endpoint in a thread pool).
NumRequests == 2

Requests == 1..NumRequests

\* A WAV header is 44 bytes.
WavHeaderBytes == 44

\* What decode_audio looks at: whether base64 decodes, the decoded length,
\* bytes[0:4] and bytes[8:12].
Payloads ==
    [b64ok : BOOLEAN, len : {WavHeaderBytes - 1, WavHeaderBytes},
     riff : {"RIFF", "RIFX"}, wave : {"WAVE", "AVI "}]

NoPayload == [b64ok |-> FALSE, len |-> 0, riff |-> "", wave |-> ""]

NoException == [kind |-> "none", status |-> 0, detail |-> ""]

HTTPException(status, detail) ==
    [kind |-> "HTTPException", status |-> status, detail |-> detail]

Exception(msg) == [kind |-> "Exception", status |-> 0, detail |-> msg]

NoResponse == [status |-> 0, detail |-> ""]

\* decode_audio's validation: the HTTPException it raises, or NoException.
decode_audio_check(p) ==
    IF ~p.b64ok THEN HTTPException(400, "Invalid base64 audio")
    ELSE IF p.len < WavHeaderBytes THEN HTTPException(400, "Audio data too short")
    ELSE IF p.riff # "RIFF" \/ p.wave # "WAVE"
         THEN HTTPException(400, "Invalid WAV format")
    ELSE NoException

\* analyze's except clauses: an HTTPException passes through unchanged, any
\* other Exception becomes a 500 carrying str(e).
ExceptAllAs500(e) == [status |-> 500, detail |-> e.detail]

ExceptClauses(e) ==
    IF e.kind = "HTTPException"
    THEN [status |-> e.status, detail |-> e.detail]
    ELSE [status |-> 500, detail |-> e.detail]

\* analyze's finally clause applied to the set fs of existing files.
FinallyKeepsFile(r, fs) == fs

FinallyClause(r, fs) ==
    IF audio_path[r] # 0 /\ audio_path[r] \in fs
    THEN fs \ {audio_path[r]}
    ELSE fs

\* decode_audio's own cleanup when writing the file fails.
WriteFailureLeavesFile(r, fs) == fs

WriteFailureCleanup(r, fs) == fs \ {created[r]}

\* The request ends with exception e: except clauses, then finally.
Fail(r, e, fs) ==
    /\ raised' = [raised EXCEPT ![r] = e]
    /\ response' = [response EXCEPT ![r] = ExceptClauses(e)]
    /\ files' = FinallyClause(r, fs)
    /\ pc' = [pc EXCEPT ![r] = "done"]

\* Durations a decoded recording may have (0.5 s, 1.0 s, 4.0 s).
SoundDurations == {Ms(500), Ms(1000), Ms(4000)}

\* What the startup handler leaves in the global: it declares the name
\* global, so the handle it built.
StartupKeepsGlobal(h) == whisper_model

StartupAssign(h) == h

\* @app.on_event("startup"): the handler runs to completion before any
\* request is served; if it raises, the server does not start.
load_whisper_at_startup ==
    /\ server = "booting"
    /\ \/ /\ loads' = loads + 1
          /\ whisper_model' = StartupAssign(loads + 1)
          /\ server' = "serving"
       \/ /\ server' = "failed"
          /\ UNCHANGED <<loads, whisper_model>>
    /\ UNCHANGED <<pc, payload, created, audio_path, files, model,
                   transcribed, duration, raised, response>>
    /\ UNCHANGED funVars

\* A request arrives; analyze() starts with audio_path = None.
Arrive(r) ==
    /\ server = "serving"
    /\ pc[r] = "idle"
    /\ \E p \in Payloads : payload' = [payload EXCEPT ![r] = p]
    /\ pc' = [pc EXCEPT ![r] = "decode"]
    /\ UNCHANGED <<server, whisper_model, loads, created, audio_path, files,
                   model, transcribed, duration, raised, response>>
    /\ UNCHANGED funVars

\* tempfile.mkstemp: a new file under a name never used before.
mkstemp == 1 + Cardinality({q \in Requests : created[q] # 0})

\* decode_audio up to mkstemp: reject the payload, or create the file.
decode_audio(r) ==
    /\ pc[r] = "decode"
    /\ LET e == decode_audio_check(payload[r]) IN
       IF e # NoException
       THEN /\ Fail(r, e, files)
            /\ UNCHANGED created
       ELSE /\ files' = files \cup {mkstemp}
            /\ created' = [created EXCEPT ![r] = mkstemp]
            /\ pc' = [pc EXCEPT ![r] = "write"]
            /\ UNCHANGED <<raised, response>>
    /\ UNCHANGED <<server, whisper_model, loads, payload, audio_path, model,
                   transcribed, duration>>
    /\ UNCHANGED funVars

\* decode_audio's write: on success analyze holds the path; on failure
\* decode_audio unlinks the file and re-raises, and analyze (audio_path
\* still None) answers 500.
decode_audio_write(r) ==
    /\ pc[r] = "write"
    /\ \/ /\ audio_path' = [audio_path EXCEPT ![r] = created[r]]
          /\ pc' = [pc EXCEPT ![r] = "sound"]
          /\ UNCHANGED <<files, raised, response>>
       \/ /\ Fail(r, Exception("write failed"), WriteFailureCleanup(r, files))
          /\ UNCHANGED audio_path
    /\ UNCHANGED <<server, whisper_model, loads, payload, created, model,
                   transcribed, duration>>
    /\ UNCHANGED funVars

\* parselmouth.Sound(path), sound.duration and the minimum-length check.
load_sound(r) ==
    /\ pc[r] = "sound"
    /\ \/ /\ Fail(r, Exception("sound load failed"), files)
          /\ UNCHANGED duration
       \/ \E d \in SoundDurations :
            /\ duration' = [duration EXCEPT ![r] = d]
            /\ IF d < Ms(1000)
               THEN Fail(r, HTTPException(400, "Recording too short (min 1 second)"),
                         files)
               ELSE /\ pc' = [pc EXCEPT ![r] = "gwm"]
                    /\ UNCHANGED <<files, raised, response>>
    /\ UNCHANGED <<server, whisper_model, loads, payload, created, audio_path,
                   model, transcribed>>
    /\ UNCHANGED funVars

\* get_whisper_model, one step at a time: the test of the global, then (only
\* when it was None) the construction and the assignment.
get_whisper_model(r) ==
    /\ pc[r] \in {"gwm", "gwm_load"}
    /\ IF pc[r] = "gwm"
       THEN IF whisper_model = 0
            THEN /\ pc' = [pc EXCEPT ![r] = "gwm_load"]
                 /\ UNCHANGED <<whisper_model, loads, model>>
            ELSE /\ model' = [model EXCEPT ![r] = whisper_model]
                 /\ pc' = [pc EXCEPT ![r] = "transcribe"]
                 /\ UNCHANGED <<whisper_model, loads>>
       ELSE /\ loads' = loads + 1
            /\ whisper_model' = loads + 1
            /\ model' = [model EXCEPT ![r] = loads + 1]
            /\ pc' = [pc EXCEPT ![r] = "transcribe"]
    /\ UNCHANGED <<server, payload, created, audio_path, files, transcribed,
                   duration, raised, response>>
    /\ UNCHANGED funVars

\* model.transcribe(...) and list(segments).
transcribe(r) ==
    /\ pc[r] = "transcribe"
    /\ transcribed' = [transcribed EXCEPT ![r] = TRUE]
    /\ \/ /\ pc' = [pc EXCEPT ![r] = "extract"]
          /\ UNCHANGED <<files, raised, response>>
       \/ Fail(r, Exception("transcription failed"), files)
    /\ UNCHANGED <<server, whisper_model, loads, payload, created, audio_path,
                   model, duration>>
    /\ UNCHANGED funVars

\* The stages after transcription, any of which may raise.
AnalysisStages ==
    {"words_from_faster_whisper", "analyze_vot", "analyze_transition_stability",
     "analyze_prosodic_decay", "analyze_vowel_space", "analyze_amplitude_jitter",
     "compute_score"}

\* Word boundaries, the five extractors and the score, then the response.
extract_and_score(r) ==
    /\ pc[r] = "extract"
    /\ \/ /\ response' = [response EXCEPT ![r] = [status |-> 200, detail |-> "ok"]]
          /\ files' = FinallyClause(r, files)
          /\ pc' = [pc EXCEPT ![r] = "done"]
          /\ UNCHANGED raised
       \/ \E st \in AnalysisStages : Fail(r, Exception(st), files)
    /\ UNCHANGED <<server, whisper_model, loads, payload, created, audio_path,
                   model, transcribed, duration>>
    /\ UNCHANGED funVars

analyze(r) ==
    \/ Arrive(r)
    \/ decode_audio(r)
    \/ decode_audio_write(r)
    \/ load_sound(r)
    \/ get_whisper_model(r)
    \/ transcribe(r)
    \/ extract_and_score(r)

PipeInit ==
    /\ server = "booting"
    /\ whisper_model = 0
    /\ loads = 0
    /\ pc = [r \in Requests |-> "idle"]
    /\ payload = [r \in Requests |-> NoPayload]
    /\ created = [r \in Requests |-> 0]
    /\ audio_path = [r \in Requests |-> 0]
    /\ files = {}
    /\ model = [r \in Requests |-> 0]
    /\ transcribed = [r \in Requests |-> FALSE]
    /\ duration = [r \in Requests |-> -1]
    /\ raised = [r \in Requests |-> NoException]
    /\ response = [r \in Requests |-> NoResponse]

\* No extractor call is in progress.
FunIdle ==
    /\ segments = <<>>
    /\ words = <<>>
    /\ sound = [kind |-> "none"]
    /\ metrics = [kind |-> "none"]
    /\ dur = 0
    /\ values = <<>>
    /\ called = "no"
    /\ result = 0

Init == PipeInit /\ FunIdle

Next ==
    \/ load_whisper_at_startup
    \/ \E r \in Requests : analyze(r)

Spec == Init /\ [][Next]_vars

\* ------------------------------------------------------------------------
\* Properties of POST /analyze
\* ------------------------------------------------------------------------

Finished(r) == pc[r] = "done"

\* C3: once a request has finished, however it ended (200, 400 or 500, a
\* failed write of the temporary file included), the temporary WAV file
\* created for it no longer exists.
C3_TempFileRemoved ==
    \A r \in Requests : Finished(r) => created[r] \notin files

\* C3 witness: one request finished successfully and another finished with a
\* 500 after its file had been created; both files are gone.
C3_Witness ==
    \E r1, r2 \in Requests :
        /\ Finished(r1) /\ response[r1].status = 200 /\ created[r1] # 0
        /\ Finished(r2) /\ response[r2].status = 500 /\ created[r2] # 0
        /\ files = {}

\* The payload or the decoded duration makes the request an input error.
InputError(r) ==
    \/ ~payload[r].b64ok
    \/ payload[r].len < WavHeaderBytes
    \/ payload[r].riff # "RIFF"
    \/ payload[r].wave # "WAVE"
    \/ (duration[r] >= 0 /\ duration[r] < Ms(1000))

\* C4: a finished request with an input error got 400 and never reached the
\* recognizer; a request in which any other failure was raised got 500 with
\* that failure's message; 400 is only ever an input error's answer, and 200
\* is only the answer of a request in which nothing was raised.
C4_ErrorClasses ==
    \A r \in Requests : Finished(r) =>
        /\ InputError(r) => (response[r].status = 400 /\ ~transcribed[r])
        /\ raised[r].kind = "Exception" =>
               (response[r].status = 500 /\ response[r].detail = raised[r].detail)
        /\ raised[r].kind = "HTTPException" => response[r].status = 400
        /\ response[r].status = 400 => InputError(r)
        /\ response[r].status = 200 => (raised[r] = NoException /\ ~InputError(r))
        /\ response[r].status \in {200, 400, 500}

\* C4 witness: one request was refused for its duration (400) before the
\* recognizer ran, another failed in an extractor and got 500.
C4_Witness ==
    \E r1, r2 \in Requests :
        /\ Finished(r1) /\ duration[r1] = Ms(500) /\ response[r1].status = 400
        /\ Finished(r2) /\ raised[r2] = Exception("analyze_vot")
        /\ response[r2].status = 500

\* C10: the model is constructed once, by the startup handler; no request
\* ever constructs it, the global keeps the startup handle while serving,
\* and every request that called get_whisper_model got that handle.
C10_LoadedOnceAtStartup ==
    /\ loads <= 1
    /\ server = "serving" => (loads = 1 /\ whisper_model = 1)
    /\ \A r \in Requests :
        /\ pc[r] # "gwm_load"
        /\ model[r] # 0 => model[r] = 1

\* C10 witness: two requests hold the handle at the same time, both about
\* to transcribe, after a single load.
C10_Witness ==
    /\ loads = 1
    /\ \E r1, r2 \in Requests :
        /\ r1 # r2
        /\ pc[r1] = "transcribe" /\ pc[r2] = "transcribe"
        /\ model[r1] = 1 /\ model[r2] = 1

\* ------------------------------------------------------------------------
\* compute_score
\* ------------------------------------------------------------------------

TargetWords == {"quick", "brown", "jumps"}

RECURSIVE SumOver(_, _)
\* The sum of f over the finite set S of its arguments.
SumOver(f, S) ==
    IF S = {} THEN 0
    ELSE LET x == CHOOSE y \in S : TRUE IN f[x] + SumOver(f, S \ {x})

\* vot_avg > th, where vot_avg is np.mean of the recorded values, or 50
\* when the mapping is empty.
VotAvgAbove(vot, th) ==
    IF DOMAIN vot = {} THEN 50 > th
    ELSE SumOver(vot, DOMAIN vot) > th * Cardinality(DOMAIN vot)

VotPointsInclusive(vot) ==
    IF ~VotAvgAbove(vot, 79) THEN
        IF VotAvgAbove(vot, 60) THEN 15
        ELSE IF VotAvgAbove(vot, 45) THEN 5 ELSE 0
    ELSE IF SumOver(vot, DOMAIN vot) >= 80 * Cardinality(DOMAIN vot) THEN 25
    ELSE 15

\* Points, in tenths, for the mean voice onset time.
VotPoints(vot) ==
    IF VotAvgAbove(vot, 80) THEN 25
    ELSE IF VotAvgAbove(vot, 60) THEN 15
    ELSE IF VotAvgAbove(vot, 45) THEN 5
    ELSE 0

StabPointsSwapped(stab) ==
    IF stab < 300 THEN 10 ELSE IF stab < 500 THEN 20 ELSE 0

\* Points for transitionStability (thousandths).
StabPoints(stab) ==
    IF stab < 300 THEN 20 ELSE IF stab < 500 THEN 10 ELSE 0

\* Points for prosodicDecay.amplitudeDecay (thousandths).
DecayPoints(amp_decay) ==
    IF amp_decay > 250 THEN 20 ELSE IF amp_decay > 150 THEN 10 ELSE 0

\* Points for amplitudeJitter (ten-thousandths).
JitterPoints(jitter) ==
    IF jitter > 600 THEN 20 ELSE IF jitter > 400 THEN 10 ELSE 0

\* Points for the duration d (ticks): duration_ratio is d / 4.0 when d > 0
\* and 1 otherwise; it is < 0.5 iff d < 2 s and > 2 iff d > 8 s.
DurationPoints(d) ==
    LET inRange == IF d > 0 THEN d >= Ms(2000) /\ d <= Ms(8000) ELSE TRUE
    IN IF inRange THEN 0 ELSE 10

\* The score in tenths.  Every addend is a multiple of 0.5, so the sum is a
\* float without error and round(., 1) returns it unchanged.
compute_score(m, d) ==
    LET score == VotPoints(m.vot) + StabPoints(m.transitionStability)
                 + DecayPoints(m.prosodicDecay.amplitudeDecay)
                 + JitterPoints(m.amplitudeJitter) + DurationPoints(d)
    IN Min(100, Max(0, score))

\* The inputs tried: vot mappings over any subset of the target words with
\* values whose means hit 45, 60 and 80 exactly, and the other signals at
\* and next to their thresholds.
VotValues == {30, 60, 90}

VotMaps == UNION {[K -> VotValues] : K \in SUBSET TargetWords}

StabilityValues == {200, 300, 500}

DecayValues == {150, 250, 300}

JitterValues == {400, 600, 700}

ScoreDurations == {0, Ms(1999), Ms(2000), Ms(4000), Ms(8000), Ms(8001)}

MetricsBundles ==
    [vot : VotMaps, transitionStability : StabilityValues,
     prosodicDecay : [amplitudeDecay : DecayValues, rateDecay : {0}],
     amplitudeJitter : JitterValues]

\* No pipeline is running while a single function is exercised.
PipeOff ==
    /\ server = "failed"
    /\ whisper_model = 0
    /\ loads = 0
    /\ pc = [r \in Requests |-> "idle"]
    /\ payload = [r \in Requests |-> NoPayload]
    /\ created = [r \in Requests |-> 0]
    /\ audio_path = [r \in Requests |-> 0]
    /\ files = {}
    /\ model = [r \in Requests |-> 0]
    /\ transcribed = [r \in Requests |-> FALSE]
    /\ duration = [r \in Requests |-> -1]
    /\ raised = [r \in Requests |-> NoException]
    /\ response = [r \in Requests |-> NoResponse]

InitScore ==
    /\ PipeOff
    /\ metrics \in MetricsBundles
    /\ dur \in ScoreDurations
    /\ segments = <<>>
    /\ words = <<>>
    /\ sound = [kind |-> "none"]
    /\ values = <<>>
    /\ called = "no"
    /\ result = 0

\* score = compute_score(metrics, duration)
CallScore ==
    /\ called = "no"
    /\ result' = compute_score(metrics, dur)
    /\ called' = "compute_score"
    /\ UNCHANGED <<segments, words, sound, metrics, dur, values, pipeVars>>

\* The same call again on a bundle that differs in one signal only.
Rescore(m2, d2) ==
    /\ called = "compute_score"
    /\ metrics' = m2
    /\ dur' = d2
    /\ result' = compute_score(m2, d2)
    /\ UNCHANGED <<segments, words, sound, values, called, pipeVars>>

\* mean(v2) > mean(v1), an empty mapping counting as 50.
MeanGreater(v2, v1) ==
    LET n2 == IF DOMAIN v2 = {} THEN 1 ELSE Cardinality(DOMAIN v2)
        s2 == IF DOMAIN v2 = {} THEN 50 ELSE SumOver(v2, DOMAIN v2)
        n1 == IF DOMAIN v1 = {} THEN 1 ELSE Cardinality(DOMAIN v1)
        s1 == IF DOMAIN v1 = {} THEN 50 ELSE SumOver(v1, DOMAIN v1)
    IN s2 * n1 > s1 * n2

RaiseVot ==
    \E v \in VotMaps :
        /\ MeanGreater(v, metrics.vot)
        /\ Rescore([metrics EXCEPT !.vot = v], dur)

LowerStability ==
    \E x \in StabilityValues :
        /\ x < metrics.transitionStability
        /\ Rescore([metrics EXCEPT !.transitionStability = x], dur)

RaiseDecay ==
    \E x \in DecayValues :
        /\ x > metrics.prosodicDecay.amplitudeDecay
        /\ Rescore([metrics EXCEPT !.prosodicDecay.amplitudeDecay = x], dur)

RaiseJitter ==
    \E x \in JitterValues :
        /\ x > metrics.amplitudeJitter
        /\ Rescore([metrics EXCEPT !.amplitudeJitter = x], dur)

\* From a duration whose ratio d / 4.0 is in [0.5, 2] to one whose ratio is
\* < 0.5 or > 2.
ExtremeDuration ==
    \E d \in ScoreDurations :
        /\ dur >= Ms(2000) /\ dur <= Ms(8000)
        /\ d < Ms(2000) \/ d > Ms(8000)
        /\ Rescore(metrics, d)

NextScore ==
    \/ CallScore
    \/ RaiseVot
    \/ LowerStability
    \/ RaiseDecay
    \/ RaiseJitter
    \/ ExtremeDuration

SpecScore == InitScore /\ [][NextScore]_vars

\* The table of section 4.7, in tenths, with durationRatio = duration / 4.0
\* for every duration.
TableVot(vot) ==
    LET n == Cardinality(DOMAIN vot)
        s == SumOver(vot, DOMAIN vot)
    IN IF n = 0 THEN 5
       ELSE IF s > 80 * n THEN 25
       ELSE IF s > 60 * n THEN 15
       ELSE IF s > 45 * n THEN 5 ELSE 0

TableSum(m, extreme) ==
    TableVot(m.vot)
    + (CASE m.transitionStability < 300 -> 20
         [] m.transitionStability >= 300 /\ m.transitionStability < 500 -> 10
         [] OTHER -> 0)
    + (CASE m.prosodicDecay.amplitudeDecay > 250 -> 20
         [] m.prosodicDecay.amplitudeDecay <= 250
            /\ m.prosodicDecay.amplitudeDecay > 150 -> 10
         [] OTHER -> 0)
    + (CASE m.amplitudeJitter > 600 -> 20
         [] m.amplitudeJitter <= 600 /\ m.amplitudeJitter > 400 -> 10
         [] OTHER -> 0)
    + (IF extreme THEN 10 ELSE 0)

\* duration / 4.0 < 0.5 or duration / 4.0 > 2
RatioExtreme(d) == 10 * d < 5 * 4 * Ms(1000) \/ d > 2 * 4 * Ms(1000)

\* C1 as stated: for every bundle and every duration >= 0 the score is the
\* table's sum with the duration term decided by duration / 4.0.
C1_AsStated ==
    called = "compute_score" =>
        result = Min(100, Max(0, TableSum(metrics, RatioExtreme(dur))))

\* C1 (amended): for every bundle the score is the table's sum clamped to
\* [0,10], the duration term being decided by duration / 4.0 for a duration
\* > 0 and adding nothing for a duration of 0.
C1_ScoreIsTableSum ==
    called = "compute_score" =>
        result = Min(100, Max(0, TableSum(metrics, dur > 0 /\ RatioExtreme(dur))))

\* C1 witness: scenario E (mean VOT 90, stability 0.2, decay 0.3, jitter
\* 0.07, duration 4.0 s) scored 8.5.
C1_Witness ==
    /\ called = "compute_score"
    /\ metrics.vot = [w \in {"quick", "jumps"} |-> 90]
    /\ metrics.transitionStability = 200
    /\ metrics.prosodicDecay.amplitudeDecay = 300
    /\ metrics.amplitudeJitter = 700
    /\ dur = Ms(4000)
    /\ result = 85

\* C2: the score is always in [0,10], and no step that raises one risk
\* signal with the others fixed (higher mean VOT, lower stability, higher
\* amplitude decay, higher jitter, duration from a ratio in [0.5,2] to an
\* extreme one) decreases it.
C2_BoundedMonotone ==
    /\ [](called = "compute_score" => result \in 0..100)
    /\ [][called = "compute_score" => result' >= result]_vars

\* C2 witness: a bundle rescored after its stability was lowered from 0.5 to
\* 0.2 scores strictly more than the 0.5 points it had.
C2_Witness ==
    /\ called = "compute_score"
    /\ metrics.vot = <<>>
    /\ metrics.transitionStability = 200
    /\ metrics.prosodicDecay.amplitudeDecay = 150
    /\ metrics.amplitudeJitter = 400
    /\ dur = Ms(4000)
    /\ result = 25

\* ------------------------------------------------------------------------
\* SignalProvider readings and word boundaries
\* ------------------------------------------------------------------------

\* What one query of a pitch, intensity or formant curve gives: a number,
\* NaN (undefined there), None, or an exception.
Value(v) == [kind |-> "value", v |-> v]

NaN == [kind |-> "nan", v |-> 0]

NoneValue == [kind |-> "none", v |-> 0]

Raises == [kind |-> "raise", v |-> 0]

WordBoundary(w, s, e) == [word |-> w, start |-> s, end |-> e]

\* round(n / d) for d > 0, ties to the even neighbour as Python's round.
RoundDiv(n, d) ==
    LET q == n \div d
        r == n % d
    IN IF 2 * r < d THEN q
       ELSE IF 2 * r > d THEN q + 1
       ELSE IF q % 2 = 0 THEN q ELSE q + 1

\* The extractor specifications leave these untouched.
FunInputsIdle ==
    /\ segments = <<>>
    /\ metrics = [kind |-> "none"]
    /\ dur = 0
    /\ values = <<>>

RECURSIVE SeqsUpTo(_, _)
\* All sequences over S of length at most n.
SeqsUpTo(S, n) ==
    IF n = 0 THEN {<<>>}
    ELSE LET shorter == SeqsUpTo(S, n - 1)
         IN shorter \cup {Append(q, x) : q \in shorter, x \in S}

\* ------------------------------------------------------------------------
\* analyze_transition_stability
\* ------------------------------------------------------------------------

\* Longest utterance tried.
MaxTransWords == 3

\* Two fox occurrences and two jumps occurrences: one jumps starts where the
\* earlier fox ends and before the later fox ends, the other after both.
TransWords ==
    {WordBoundary("fox", Ms(1700), Ms(1900)),
     WordBoundary("fox", Ms(1700), Ms(2000)),
     WordBoundary("jumps", Ms(1900), Ms(2300)),
     WordBoundary("jumps", Ms(2022), Ms(2300))}

\* The formant frames the stub defines; a query elsewhere is undefined.
FormantTimes == {Ms(1995), Ms(2000), Ms(2005), Ms(2010), Ms(2015), Ms(2020)}

FormantFrames ==
    {[f1 |-> Value(500), f2 |-> NaN],
     [f1 |-> Value(500), f2 |-> Value(1500)],
     [f1 |-> Value(504), f2 |-> Value(1498)],
     [f1 |-> Value(700), f2 |-> Value(1100)]}

FormantSounds == [kind : {"formant"}, frames : [FormantTimes -> FormantFrames]]

\* formant.get_value_at_time(n, t)
get_value_at_time(snd, n, t) ==
    IF t \in DOMAIN snd.frames
    THEN IF n = 1 THEN snd.frames[t].f1 ELSE snd.frames[t].f2
    ELSE NaN

\* "f and not np.isnan(f)" inside the try block.
FormantOk(f) == f.kind = "value" /\ f.v # 0

RECURSIVE ScanWithoutBreak(_, _, _, _)
ScanWithoutBreak(ws, i, fox_end, jumps_start) ==
    IF i > Len(ws) THEN [fox_end |-> fox_end, jumps_start |-> jumps_start]
    ELSE IF ws[i].word = "fox"
         THEN ScanWithoutBreak(ws, i + 1, ws[i].end, jumps_start)
    ELSE IF ws[i].word = "jumps" /\ fox_end # -1
         THEN ScanWithoutBreak(ws, i + 1, fox_end, ws[i].start)
    ELSE ScanWithoutBreak(ws, i + 1, fox_end, jumps_start)

ScanNoBreak(ws, i, fox_end) == ScanWithoutBreak(ws, i, fox_end, -1)

RECURSIVE ScanForFoxJumps(_, _, _)
\* The loop over words: fox_end follows every fox seen, the first jumps
\* after a fox sets jumps_start and ends the loop (-1 is None).
ScanForFoxJumps(ws, i, fox_end) ==
    IF i > Len(ws) THEN [fox_end |-> fox_end, jumps_start |-> -1]
    ELSE IF ws[i].word = "fox" THEN ScanForFoxJumps(ws, i + 1, ws[i].end)
    ELSE IF ws[i].word = "jumps" /\ fox_end # -1
         THEN [fox_end |-> fox_end, jumps_start |-> ws[i].start]
    ELSE ScanForFoxJumps(ws, i + 1, fox_end)

RECURSIVE KeptFormants(_, _, _)
\* The samples kept on the 5 ms grid from t while t <= jumps_start.
KeptFormants(snd, t, jumps_start) ==
    IF t > jumps_start THEN <<>>
    ELSE LET f1 == get_value_at_time(snd, 1, t)
             f2 == get_value_at_time(snd, 2, t)
             rest == KeptFormants(snd, t + Ms(5), jumps_start)
         IN IF FormantOk(f1) /\ FormantOk(f2)
            THEN <<[t |-> t, f1 |-> f1.v, f2 |-> f2.v]>> \o rest
            ELSE rest

\* From the kept samples to the result, in thousandths.  With the span in
\* ticks, (f1_slope + f2_slope) / 20000 is (dF1 + dF2) / (2 * span).
StabilityOfKept(kept) ==
    IF Len(kept) < 3 THEN 500
    ELSE LET span == kept[Len(kept)].t - kept[1].t
             rise == Abs(kept[Len(kept)].f1 - kept[1].f1)
                     + Abs(kept[Len(kept)].f2 - kept[1].f2)
         IN IF span < Ms(20) THEN 500
            ELSE Min(1000, RoundDiv(1000 * rise, 2 * span))

\* Whether the guard before the formant analysis lets it through.
PairUsable(p) ==
    ~(p.fox_end = -1 \/ p.jumps_start = -1 \/ p.jumps_start <= p.fox_end)

analyze_transition_stability(snd, ws) ==
    LET p == ScanForFoxJumps(ws, 1, -1)
    IN IF ~PairUsable(p) THEN 500
       ELSE StabilityOfKept(KeptFormants(snd, p.fox_end, p.jumps_start))

InitTrans ==
    /\ PipeOff
    /\ FunInputsIdle
    /\ words \in SeqsUpTo(TransWords, MaxTransWords)
    /\ sound = [kind |-> "none"]
    /\ called = "no"
    /\ result = 0

\* One call on the recording's formant curves.
CallTransition ==
    /\ called = "no"
    /\ \E snd \in FormantSounds :
        /\ sound' = snd
        /\ result' = analyze_transition_stability(snd, words)
    /\ called' = "analyze_transition_stability"
    /\ UNCHANGED <<segments, words, metrics, dur, values, pipeVars>>

NextTrans == CallTransition

SpecTrans == InitTrans /\ [][NextTrans]_vars

\* The value section 4.3 gives for the transition [from, to]: 0.5 with fewer
\* than 3 valid samples on the 5 ms grid or a kept span under 0.02 s, else
\* min(1.0, (|F1 last - F1 first| + |F2 last - F2 first|) / span / 20000).
\* IsSectionValue says that v thousandths is this value to three decimals:
\* |v/1000 - value| <= 0.0005.
IsSectionValue(v, snd, from, to) ==
    LET T == {t \in DOMAIN snd.frames :
                /\ t >= from /\ t <= to /\ (t - from) % Ms(5) = 0
                /\ snd.frames[t].f1.kind = "value" /\ snd.frames[t].f1.v # 0
                /\ snd.frames[t].f2.kind = "value" /\ snd.frames[t].f2.v # 0}
        first == CHOOSE t \in T : \A u \in T : t <= u
        last == CHOOSE t \in T : \A u \in T : t >= u
        rise == Abs(snd.frames[last].f1.v - snd.frames[first].f1.v)
                + Abs(snd.frames[last].f2.v - snd.frames[first].f2.v)
    IN IF Cardinality(T) < 3 THEN v = 500
       ELSE IF last - first < Ms(20) THEN v = 500
       ELSE IF rise >= 2 * (last - first) THEN v = 1000
       ELSE Abs(2 * (last - first) * v - 1000 * rise) <= last - first

\* Every (fox occurrence, later jumps occurrence) whose jumps.start is
\* strictly greater than fox.end.
OrderedPairs(ws) ==
    {p \in (1..Len(ws)) \X (1..Len(ws)) :
        /\ p[1] < p[2]
        /\ ws[p[1]].word = "fox" /\ ws[p[2]].word = "jumps"
        /\ ws[p[2]].start > ws[p[1]].end}

\* C5 as stated: the result is 0.5 when no ordered pair exists anywhere in
\* the utterance, and otherwise the section's value for such a pair
\* (whichever pair counts as the first).
C5_AsStated ==
    called = "analyze_transition_stability" =>
        IF OrderedPairs(words) = {} THEN result = 500
        ELSE \E p \in OrderedPairs(words) :
                IsSectionValue(result, sound, words[p[1]].end, words[p[2]].start)

\* The jumps occurrences that follow some fox occurrence.
JumpsAfterFox(ws) ==
    {j \in 1..Len(ws) :
        ws[j].word = "jumps" /\ \E i \in 1..(j - 1) : ws[i].word = "fox"}

\* C5 (amended): the function looks at one pair only, the first jumps
\* occurrence that follows a fox occurrence and the last fox occurrence
\* before it.  It returns 0.5 when there is no such pair or when that
\* jumps.start is not strictly greater than that fox.end, and otherwise the
\* section's value for that pair, to three decimals.  With fox.end = 2.0 and
\* jumps.start = 1.9 as the only candidates the result is 0.5.
C5_TransitionOfFirstJumps ==
    called = "analyze_transition_stability" =>
        /\ IF JumpsAfterFox(words) = {} THEN result = 500
           ELSE LET j == CHOOSE x \in JumpsAfterFox(words) :
                            \A y \in JumpsAfterFox(words) : x <= y
                    F == {i \in 1..(j - 1) : words[i].word = "fox"}
                    i == CHOOSE x \in F : \A y \in F : x >= y
                IN IF words[j].start <= words[i].end THEN result = 500
                   ELSE IsSectionValue(result, sound, words[i].end, words[j].start)
        /\ words = <<WordBoundary("fox", Ms(1700), Ms(2000)),
                     WordBoundary("jumps", Ms(1900), Ms(2300))>> => result = 500

\* C5 witness: after two fox occurrences, the transition from the later one
\* to jumps has 5 valid samples over 0.02 s whose formants move by 4 + 2 Hz:
\* 6 / 0.02 / 20000 = 0.015.
C5_Witness ==
    /\ called = "analyze_transition_stability"
    /\ words = <<WordBoundary("fox", Ms(1700), Ms(1900)),
                 WordBoundary("fox", Ms(1700), Ms(2000)),
                 WordBoundary("jumps", Ms(2022), Ms(2300))>>
    /\ sound.frames[Ms(1995)] = [f1 |-> Value(700), f2 |-> Value(1100)]
    /\ sound.frames[Ms(2000)] = [f1 |-> Value(500), f2 |-> Value(1500)]
    /\ sound.frames[Ms(2020)] = [f1 |-> Value(504), f2 |-> Value(1498)]
    /\ result = 15

\* ------------------------------------------------------------------------
\* analyze_vot
\* ------------------------------------------------------------------------

\* Longest utterance tried.
MaxVotWords == 2

\* Target words of 300 ms, 500 ms, exactly 50 ms and 40 ms, and a word that
\* is no target.
VotWords ==
    {WordBoundary("quick", Ms(1000), Ms(1300)),
     WordBoundary("brown", Ms(1000), Ms(1500)),
     WordBoundary("jumps", Ms(1100), Ms(1150)),
     WordBoundary("quick", Ms(1000), Ms(1040)),
     WordBoundary("fox", Ms(1000), Ms(1300))}

\* The intensity stub: undefined before a time, then a floor level (-300 dB
\* is what the signal engine reports for digital silence) except at three
\* instants, each of which is at the floor, undefined, or a 60 or 70 dB peak.
PeakTimes == {Ms(1050), Ms(1100), Ms(1120)}

PeakLevels == {[kind |-> "floor", v |-> 0], NaN, Value(60), Value(70)}

IntensityStubs ==
    [undefined_before : {0, Ms(1005)}, floor : {-300, 50},
     peaks : [PeakTimes -> PeakLevels]]

\* The pitch stub: voiced (120 Hz) from a time on, and before it either
\* undefined or 0 Hz.
PitchStubs ==
    [voiced_from : {Ms(1000), Ms(1090), Ms(1095), Ms(9000)},
     unvoiced : {NaN, Value(0)}]

VotSounds == [kind : {"vot"}, intensity : IntensityStubs, pitch : PitchStubs]

\* intensity.get_value(t)
get_value(snd, t) ==
    LET i == snd.intensity IN
    IF t < i.undefined_before THEN NaN
    ELSE IF t \in PeakTimes /\ i.peaks[t].kind # "floor" THEN i.peaks[t]
    ELSE Value(i.floor)

\* pitch.get_value_at_time(t)
pitch_get_value_at_time(snd, t) ==
    IF t >= snd.pitch.voiced_from THEN Value(120) ELSE snd.pitch.unvoiced

\* t < search_end, where search_end = start + min(0.15, duration * 0.4).
BeforeSearchEnd(t, start, word_duration) ==
    /\ t - start < Ms(150)
    /\ 10 * (t - start) < 4 * word_duration

\* The initial value of max_int.
MaxIntStart == -100

RECURSIVE BurstScan(_, _, _, _, _, _)
\* The burst loop from t on: the time of the first sample above every
\* earlier one and above the initial max_int.
BurstScan(snd, t, start, word_duration, max_int, burst_time) ==
    IF ~BeforeSearchEnd(t, start, word_duration) THEN burst_time
    ELSE LET v == get_value(snd, t) IN
         IF v.kind = "value" /\ v.v > max_int
         THEN BurstScan(snd, t + Ms(5), start, word_duration, v.v, t)
         ELSE BurstScan(snd, t + Ms(5), start, word_duration, max_int, burst_time)

RECURSIVE VoicingScan(_, _, _)
\* The voicing loop from t on: the first voiced time below end, else end.
VoicingScan(snd, t, end) ==
    IF ~(t < end) THEN end
    ELSE LET f0 == pitch_get_value_at_time(snd, t) IN
         IF f0.kind = "value" /\ f0.v > 0 THEN t
         ELSE VoicingScan(snd, t + Ms(10), end)

\* round(max(0, (voicing_time - burst_time) * 1000)) for one word.
VotOfWord(snd, w) ==
    LET burst_time == BurstScan(snd, w.start, w.start, w.end - w.start,
                                MaxIntStart, w.start)
        voicing_time == VoicingScan(snd, burst_time, w.end)
    IN RoundDiv(Max(0, voicing_time - burst_time), 10)

RECURSIVE VotLoop(_, _, _, _)
\* The loop over words from index i on, filling vot_results.
VotLoop(snd, ws, i, vot_results) ==
    IF i > Len(ws) THEN vot_results
    ELSE LET w == ws[i] IN
         IF w.word \notin TargetWords \/ w.end - w.start < Ms(50)
         THEN VotLoop(snd, ws, i + 1, vot_results)
         ELSE VotLoop(snd, ws, i + 1,
                      [k \in DOMAIN vot_results \cup {w.word} |->
                          IF k = w.word THEN VotOfWord(snd, w)
                          ELSE vot_results[k]])

analyze_vot(snd, ws) == VotLoop(snd, ws, 1, <<>>)

InitVot ==
    /\ PipeOff
    /\ FunInputsIdle
    /\ words \in SeqsUpTo(VotWords, MaxVotWords)
    /\ sound = [kind |-> "none"]
    /\ called = "no"
    /\ result = 0

\* One call on the recording's pitch and intensity curves.
CallVot ==
    /\ called = "no"
    /\ \E snd \in VotSounds :
        /\ sound' = snd
        /\ result' = analyze_vot(snd, words)
    /\ called' = "analyze_vot"
    /\ UNCHANGED <<segments, words, metrics, dur, values, pipeVars>>

NextVot == CallVot

SpecVot == InitVot /\ [][NextVot]_vars

\* The 5 ms grid times of the burst window of word w.
WindowGrid(w) ==
    {t \in {w.start + k * Ms(5) : k \in 0..30} :
        /\ t - w.start < Ms(150)
        /\ 10 * (t - w.start) < 4 * (w.end - w.start)}

\* The voice onset time section 4.2 gives for word w: from the earliest
\* window time carrying the maximum present intensity (the word's start
\* when no sample is present) to the first voiced time on the 10 ms grid
\* from there, or to the word's end.
SectionVot(snd, w) ==
    LET P == {t \in WindowGrid(w) : get_value(snd, t).kind = "value"}
        top == {t \in P : \A u \in P : get_value(snd, t).v >= get_value(snd, u).v}
        burst == IF P = {} THEN w.start
                 ELSE CHOOSE t \in top : \A u \in top : t <= u
        V == {t \in {burst + k * Ms(10) : k \in 0..((w.end - burst) \div Ms(10))} :
                /\ t < w.end
                /\ pitch_get_value_at_time(snd, t).kind = "value"
                /\ pitch_get_value_at_time(snd, t).v > 0}
        onset == IF V = {} THEN w.end ELSE CHOOSE t \in V : \A u \in V : t <= u
    IN RoundDiv(onset - burst, 10)

\* The occurrences of word k that are at least 50 ms long.
Occurrences(ws, k) ==
    {i \in 1..Len(ws) : ws[i].word = k /\ ws[i].end - ws[i].start >= Ms(50)}

\* C6 as stated: the mapping has a key only for a target word with an
\* occurrence of at least 0.05 s, and each entry is a non-negative integer,
\* the section's voice onset time of such an occurrence.
C6_AsStated ==
    called = "analyze_vot" =>
        \A k \in DOMAIN result :
            /\ k \in TargetWords
            /\ result[k] >= 0
            /\ \E i \in Occurrences(words, k) : result[k] = SectionVot(sound, words[i])

\* Some present sample of w's burst window is above the initial max_int.
AboveMaxIntStart(snd, w) ==
    \E t \in WindowGrid(w) :
        get_value(snd, t).kind = "value" /\ get_value(snd, t).v > MaxIntStart

\* C6 where the code agrees: the keys are exactly the target words with an
\* occurrence of at least 0.05 s, and an entry is the section's value of the
\* word's last such occurrence whenever some present sample of its window
\* exceeds -100 dB or the window's first sample is present.
C6_AboveSentinel ==
    called = "analyze_vot" =>
        /\ DOMAIN result = {k \in TargetWords : Occurrences(words, k) # {}}
        /\ \A k \in DOMAIN result :
            LET O == Occurrences(words, k)
                i == CHOOSE x \in O : \A y \in O : x >= y
            IN /\ result[k] >= 0
               /\ (AboveMaxIntStart(sound, words[i])
                   \/ get_value(sound, words[i].start).kind = "value")
                    => result[k] = SectionVot(sound, words[i])

\* Scenario A: quick at [1.00, 1.30], a 70 dB peak at 1.05, voiced from 1.09.
C6_ScenarioA ==
    /\ called = "analyze_vot"
    /\ words = <<WordBoundary("quick", Ms(1000), Ms(1300))>>
    /\ sound.intensity.floor = 50
    /\ sound.intensity.peaks[Ms(1050)] = Value(70)
    /\ sound.intensity.peaks[Ms(1100)] = Value(70)
    /\ sound.pitch.voiced_from = Ms(1090)
    /\ result = [k \in {"quick"} |-> 40]

\* ------------------------------------------------------------------------
\* analyze_prosodic_decay
\* ------------------------------------------------------------------------

\* Longest utterance tried.
MaxDecayWords == 6

\* Word boundaries; the utterance is any sequence of them, so it need not be
\* sorted by time and a group's span may be zero or negative.
DecayWords ==
    {WordBoundary("the", 0, Ms(400)),
     WordBoundary("quick", Ms(400), Ms(1000)),
     WordBoundary("dog", Ms(1000), Ms(1200))}

\* The average-intensity stub: what get_average(t_start, t_end) gives,
\* decided by t_start: a level in dB (possibly negative), NaN, None or
\* an exception.
AverageReadings == {Value(60), Value(45), Value(-20), NaN, NoneValue, Raises}

DecaySounds ==
    [kind : {"average"},
     average : [{w.start : w \in DecayWords} -> AverageReadings]]

\* intensity.get_average(t_start, t_end)
get_average(snd, t_start, t_end) == snd.average[t_start]

\* seg_metrics: avg_db is 0 when the query raises or gives NaN (np.isnan of
\* None raises too); rate, in words per tick, is the fraction n / d, 0 when
\* the span is not positive.
seg_metrics(snd, seg_words) ==
    LET t_start == seg_words[1].start
        t_end == seg_words[Len(seg_words)].end
        span == t_end - t_start
        avg == get_average(snd, t_start, t_end)
    IN [avg_db |-> IF avg.kind = "value" THEN avg.v ELSE 0,
        rate |-> IF span > 0 THEN [n |-> Len(seg_words), d |-> span]
                 ELSE [n |-> 0, d |-> 1]]

DecayUnclamped(num, den) == RoundDiv(1000 * num, den)

\* round(max(0, num / den), 3) in thousandths, for den > 0.
DecayRounded(num, den) == RoundDiv(1000 * Max(0, num), den)

analyze_prosodic_decay(snd, ws) ==
    IF Len(ws) < 6 THEN [amplitudeDecay |-> 0, rateDecay |-> 0]
    ELSE LET first3 == SubSeq(ws, 1, 3)
             last3 == SubSeq(ws, Len(ws) - 2, Len(ws))
             m1 == seg_metrics(snd, first3)
             m2 == seg_metrics(snd, last3)
             amp1 == m1.avg_db
             amp2 == m2.avg_db
             rate1 == m1.rate
             rate2 == m2.rate
         IN [amplitudeDecay |->
                IF amp1 > 0 THEN DecayRounded(amp1 - amp2, amp1) ELSE 0,
             rateDecay |->
                IF rate1.n > 0
                THEN DecayRounded(rate1.n * rate2.d - rate2.n * rate1.d,
                                  rate1.n * rate2.d)
                ELSE 0]

InitDecay ==
    /\ PipeOff
    /\ FunInputsIdle
    /\ words \in SeqsUpTo(DecayWords, MaxDecayWords)
    /\ sound = [kind |-> "none"]
    /\ called = "no"
    /\ result = 0

\* One call; the intensity curve is only built for 6 words or more.
CallDecay ==
    /\ called = "no"
    /\ IF Len(words) < 6
       THEN /\ result' = analyze_prosodic_decay(sound, words)
            /\ UNCHANGED sound
       ELSE \E snd \in DecaySounds :
            /\ sound' = snd
            /\ result' = analyze_prosodic_decay(snd, words)
    /\ called' = "analyze_prosodic_decay"
    /\ UNCHANGED <<segments, words, metrics, dur, values, pipeVars>>

NextDecay == CallDecay

SpecDecay == InitDecay /\ [][NextDecay]_vars

\* v thousandths is max(0, (first - last) / first) to three decimals when
\* first > 0 (first = fn / fd, last = ln / ld, denominators positive), and
\* is 0 otherwise.
IsSectionDecay(v, fn, fd, ln, ld) ==
    IF fn <= 0 THEN v = 0
    ELSE IF fn * ld <= ln * fd THEN v = 0
    ELSE 2 * Abs(v * fn * ld - 1000 * (fn * ld - ln * fd)) <= fn * ld

\* The average intensity of a group of words, 0 when absent or NaN.
GroupAverage(snd, g) ==
    LET a == snd.average[g[1].start] IN IF a.kind = "value" THEN a.v ELSE 0

GroupSpan(g) == g[Len(g)].end - g[1].start

\* C7: both decays are >= 0; with fewer than 6 words the result is exactly
\* {amplitudeDecay: 0, rateDecay: 0}; with 6 or more each decay is
\* max(0, (first - last) / first) over words[0:3] and words[-3:] when the
\* first group's value is > 0 and 0 otherwise (to the three decimals
\* returned), an absent or NaN average counting as 0 and a span <= 0 giving
\* rate 0.
C7_DecaysNonNegative ==
    called = "analyze_prosodic_decay" =>
        /\ result.amplitudeDecay >= 0
        /\ result.rateDecay >= 0
        /\ Len(words) < 6 => result = [amplitudeDecay |-> 0, rateDecay |-> 0]
        /\ Len(words) >= 6 =>
            LET f == SubSeq(words, 1, 3)
                l == SubSeq(words, Len(words) - 2, Len(words))
                fs == GroupSpan(f)
                ls == GroupSpan(l)
            IN /\ IsSectionDecay(result.amplitudeDecay,
                                 GroupAverage(sound, f), 1, GroupAverage(sound, l), 1)
               /\ IsSectionDecay(result.rateDecay,
                                 IF fs > 0 THEN 3 ELSE 0, IF fs > 0 THEN fs ELSE 1,
                                 IF ls > 0 THEN 3 ELSE 0, IF ls > 0 THEN ls ELSE 1)

\* C7 witness: six words, the first three at 60 dB over 0.4 s and the last
\* three at 45 dB over 0.8 s: amplitudeDecay 0.25, rateDecay 0.5.
C7_Witness ==
    /\ called = "analyze_prosodic_decay"
    /\ Len(words) = 6
    /\ GroupSpan(SubSeq(words, 1, 3)) = Ms(400)
    /\ GroupSpan(SubSeq(words, 4, 6)) = Ms(800)
    /\ sound.average[0] = Value(60)
    /\ sound.average[Ms(400)] = Value(45)
    /\ result = [amplitudeDecay |-> 250, rateDecay |-> 500]

\* ------------------------------------------------------------------------
\* analyze_amplitude_jitter
\* ------------------------------------------------------------------------

\* Most 20 ms steps a recording tried has.
MaxJitterSteps == 5

\* Recordings of whole numbers of steps, and one ending 10 ms short of the
\* last step.
JitterDurations ==
    {Ms(20) * n : n \in (MaxJitterSteps - 1)..MaxJitterSteps}
    \cup {Ms(20) * MaxJitterSteps - Ms(10)}

\* What one intensity query gives.
IntensityReadings ==
    {NaN, NoneValue, Raises, Value(0), Value(-20), Value(40), Value(60)}

\* The grid 0, 0.02, 0.04, ... below d.
StepsBelow(d) == {Ms(20) * k : k \in 0..((d - 1) \div Ms(20))}

JitterSounds ==
    UNION {[kind : {"intensity"}, duration : {d},
            samples : [StepsBelow(d) -> IntensityReadings]] : d \in JitterDurations}

\* intensity.get_value(t) of the jitter stub
intensity_get_value(snd, t) ==
    IF t \in DOMAIN snd.samples THEN snd.samples[t] ELSE NaN

RECURSIVE KeptIntensities(_, _)
\* The sampling loop from t on: "if v and not np.isnan(v)" keeps a reading
\* that is a number other than 0.0.
KeptIntensities(snd, t) ==
    IF ~(t < snd.duration) THEN <<>>
    ELSE LET v == intensity_get_value(snd, t)
             rest == KeptIntensities(snd, t + Ms(20))
         IN IF v.kind = "value" /\ v.v # 0 THEN <<v.v>> \o rest ELSE rest

RECURSIVE SeqSum(_)
SeqSum(q) == IF q = <<>> THEN 0 ELSE Head(q) + SeqSum(Tail(q))

RECURSIVE SqrtSearch(_, _, _)
SqrtSearch(x, lo, hi) ==
    IF lo >= hi THEN lo
    ELSE LET mid == (lo + hi + 1) \div 2
         IN IF mid * mid <= x THEN SqrtSearch(x, mid, hi)
            ELSE SqrtSearch(x, lo, mid - 1)

\* The integer part of the square root of x, 0 <= x < 2^31.
SqrtFloor(x) == SqrtSearch(x, 0, 46340)

\* round(np.std(diffs) / np.mean(values), 4) in ten-thousandths, for a
\* positive mean.  With m values of sum s and n = m - 1 differences d,
\* std = sqrt(n * sum(d^2) - sum(d)^2) / n and mean = s / m; the square
\* root is carried to two decimals.
JitterRatio(vals) ==
    LET m == Len(vals)
        n == m - 1
        diffs == [i \in 1..n |-> Abs(vals[i + 1] - vals[i])]
        q == n * SeqSum([i \in 1..n |-> diffs[i] * diffs[i]])
             - SeqSum(diffs) * SeqSum(diffs)
    IN RoundDiv(100 * m * SqrtFloor(10000 * q), n * SeqSum(vals))

\* From the kept samples to the result.
JitterOfKept(vals) ==
    IF Len(vals) < 5 THEN 0
    ELSE IF SeqSum(vals) > 0 THEN JitterRatio(vals) ELSE 0

InitJitter ==
    /\ PipeOff
    /\ FunInputsIdle
    /\ words = <<>>
    /\ sound \in JitterSounds
    /\ called = "no"
    /\ result = 0

\* One call of analyze_amplitude_jitter(sound).
CallJitter ==
    /\ called = "no"
    /\ values' = KeptIntensities(sound, 0)
    /\ result' = JitterOfKept(KeptIntensities(sound, 0))
    /\ called' = "analyze_amplitude_jitter"
    /\ UNCHANGED <<segments, words, sound, metrics, dur, pipeVars>>

NextJitter == CallJitter

SpecJitter == InitJitter /\ [][NextJitter]_vars

RECURSIVE PresentFrom(_, _)
\* The readings that are numbers, in grid order.
PresentFrom(snd, t) ==
    IF t >= snd.duration THEN <<>>
    ELSE IF snd.samples[t].kind = "value"
         THEN <<snd.samples[t].v>> \o PresentFrom(snd, t + Ms(20))
         ELSE PresentFrom(snd, t + Ms(20))

\* C8 as stated: the kept samples are exactly the readings that are present
\* (every number kept, every absent or NaN reading skipped); the result is
\* 0.0 with fewer than 5 of them, and otherwise >= 0, and 0 when their mean
\* is not > 0.
C8_AsStated ==
    called = "analyze_amplitude_jitter" =>
        /\ values = PresentFrom(sound, 0)
        /\ Len(PresentFrom(sound, 0)) < 5 => result = 0
        /\ result >= 0
        /\ SeqSum(PresentFrom(sound, 0)) <= 0 => result = 0

RECURSIVE NonZeroFrom(_, _)
NonZeroFrom(snd, t) ==
    IF t >= snd.duration THEN <<>>
    ELSE IF snd.samples[t].kind = "value" /\ snd.samples[t].v # 0
         THEN <<snd.samples[t].v>> \o NonZeroFrom(snd, t + Ms(20))
         ELSE NonZeroFrom(snd, t + Ms(20))

\* C8 where the code agrees: the kept samples are the present readings other
\* than 0.0 dB; the result is 0.0 with fewer than 5 of them or a mean that
\* is not > 0, and never negative.
C8_NonZeroKept ==
    called = "analyze_amplitude_jitter" =>
        /\ values = NonZeroFrom(sound, 0)
        /\ Len(values) < 5 => result = 0
        /\ SeqSum(values) <= 0 => result = 0
        /\ result >= 0

\* Five present readings, the first of them 0.0 dB: four are kept and the
\* result is 0.0.
C8_ZeroDropped ==
    /\ called = "analyze_amplitude_jitter"
    /\ sound.duration = Ms(100)
    /\ sound.samples[0] = Value(0)
    /\ \A t \in DOMAIN sound.samples : sound.samples[t].kind = "value"
    /\ Len(values) = 4
    /\ result = 0

\* ------------------------------------------------------------------------
\* words_from_faster_whisper
\* ------------------------------------------------------------------------

\* Strings are sequences of one-character strings.
Whitespace == {" "}

Punctuation == {".", ",", "!", "?", ";", ":"}

\* str.lower on the letters used here.
LowerChar(c) ==
    CASE c = "T" -> "t"
      [] c = "F" -> "f"
      [] c = "D" -> "d"
      [] OTHER -> c

lower(str) == [i \in 1..Len(str) |-> LowerChar(str[i])]

RECURSIVE lstrip(_)
lstrip(str) ==
    IF str # <<>> /\ Head(str) \in Whitespace THEN lstrip(Tail(str)) ELSE str

RECURSIVE rstrip(_, _)
\* str.rstrip(chars); with Whitespace it is the right half of str.strip().
rstrip(str, chars) ==
    IF str # <<>> /\ str[Len(str)] \in chars
    THEN rstrip(SubSeq(str, 1, Len(str) - 1), chars)
    ELSE str

strip(str) == rstrip(lstrip(str), Whitespace)

RECURSIVE split(_, _)
\* str.split(): the maximal runs of non-whitespace; cur is the run so far.
split(str, cur) ==
    IF str = <<>> THEN (IF cur = <<>> THEN <<>> ELSE <<cur>>)
    ELSE IF Head(str) \in Whitespace
         THEN (IF cur = <<>> THEN <<>> ELSE <<cur>>) \o split(Tail(str), <<>>)
    ELSE split(Tail(str), Append(cur, Head(str)))

\* A time as an exact fraction n / d of ticks.
Frac(n, d) == [n |-> n, d |-> d]

\* The strings the recognizer stub uses.
StrFox == <<" ", "F", "o", "x", ".">>

StrBang == <<"!">>

StrDog == <<"d", "o", "g">>

StrTheFox == <<" ", "T", "h", "e", " ", " ", "f", "o", "x", ".", " ">>

StrBangDogQuery == <<"!", " ", "D", "o", "g", " ", "?">>

\* Most segments the recognizer output tried has.
MaxSegments == 2

TimedFox == [word |-> StrFox, start |-> 0, end |-> Ms(300)]

TimedBang == [word |-> StrBang, start |-> Ms(300), end |-> Ms(400)]

TimedDog == [word |-> StrDog, start |-> Ms(400), end |-> Ms(700)]

\* segment.words: None, or a list of timed words.
NoWords == [kind |-> "none", items |-> <<>>]

WordList(items) == [kind |-> "list", items |-> items]

SegmentWordLists ==
    {NoWords, WordList(<<>>), WordList(<<TimedBang>>),
     WordList(<<TimedFox, TimedDog>>), WordList(<<TimedBang, TimedFox>>)}

SegmentTexts == {<<>>, StrTheFox, StrBangDogQuery}

SegmentSpans == {[start |-> 0, end |-> Ms(1000)], [start |-> Ms(1000), end |-> Ms(1100)]}

Segments ==
    {[start |-> sp.start, end |-> sp.end, text |-> tx, words |-> wl] :
        sp \in SegmentSpans, tx \in SegmentTexts, wl \in SegmentWordLists}

RECURSIVE TimedOfList(_, _)
\* The inner loop of the first pass over one segment's words, from index i.
TimedOfList(items, i) ==
    IF i > Len(items) THEN <<>>
    ELSE LET word == rstrip(lower(strip(items[i].word)), Punctuation)
             rest == TimedOfList(items, i + 1)
         IN IF word # <<>>
            THEN <<[word |-> word, start |-> Frac(items[i].start, 1),
                    end |-> Frac(items[i].end, 1)]>> \o rest
            ELSE rest

RECURSIVE TimedPass(_, _)
\* The first pass: "for w in (segment.words or [])" over every segment.
TimedPass(segs, k) ==
    IF k > Len(segs) THEN <<>>
    ELSE TimedOfList(segs[k].words.items, 1) \o TimedPass(segs, k + 1)

RECURSIVE SplitOfText(_, _, _)
\* The inner loop of the second pass: token i (from 0) of text gets
\* [s_start + i * step, s_start + (i + 1) * step], step = span / len(text).
SplitOfText(seg, text, i) ==
    IF i >= Len(text) THEN <<>>
    ELSE LET w == rstrip(text[i + 1], Punctuation)
             n == Len(text)
             rest == SplitOfText(seg, text, i + 1)
         IN IF w # <<>>
            THEN <<[word |-> w,
                    start |-> Frac(seg.start * n + i * (seg.end - seg.start), n),
                    end |-> Frac(seg.start * n + (i + 1) * (seg.end - seg.start), n)]>>
                 \o rest
            ELSE rest

RECURSIVE SplitPass(_, _)
\* The second pass over every segment.
SplitPass(segs, k) ==
    IF k > Len(segs) THEN <<>>
    ELSE SplitOfText(segs[k], split(lower(strip(segs[k].text)), <<>>), 0)
         \o SplitPass(segs, k + 1)

\* "if not words": whether the second pass runs.
SecondPassAlways(ws) == TRUE

SecondPassRuns(ws) == ws = <<>>

words_from_faster_whisper(segs) ==
    LET ws == TimedPass(segs, 1)
    IN IF SecondPassRuns(ws) THEN ws \o SplitPass(segs, 1) ELSE ws

InitWords ==
    /\ PipeOff
    /\ segments \in SeqsUpTo(Segments, MaxSegments)
    /\ words = <<>>
    /\ sound = [kind |-> "none"]
    /\ metrics = [kind |-> "none"]
    /\ dur = 0
    /\ values = <<>>
    /\ called = "no"
    /\ result = 0

\* words = words_from_faster_whisper(segments, duration)
CallWords ==
    /\ called = "no"
    /\ words' = words_from_faster_whisper(segments)
    /\ called' = "words_from_faster_whisper"
    /\ UNCHANGED <<segments, sound, metrics, dur, values, result, pipeVars>>

NextWords == CallWords

SpecWords == InitWords /\ [][NextWords]_vars

\* A word as both passes clean it: lowercased, trailing punctuation removed.
CleanedWord(str) == rstrip(lower(strip(str)), Punctuation)

UpperCase == {"T", "F", "D"}

IsCleaned(w) ==
    /\ w # <<>>
    /\ \A i \in 1..Len(w) : w[i] \notin UpperCase
    /\ w[Len(w)] \notin Punctuation

\* segment k provided word-level timings.
ProvidedTimings(segs, k) ==
    segs[k].words.kind = "list" /\ segs[k].words.items # <<>>

\* The timed words of the recognizer output that are not empty once cleaned.
SurvivingTimed(segs) ==
    {kj \in (1..Len(segs)) \X (1..2) :
        /\ kj[2] <= Len(segs[kj[1]].words.items)
        /\ CleanedWord(segs[kj[1]].words.items[kj[2]].word) # <<>>}

TokensOf(seg) == split(lower(strip(seg.text)), <<>>)

\* The tokens of the segments' texts that are not empty once cleaned.
SurvivingTokens(segs) ==
    {ki \in (1..Len(segs)) \X (1..3) :
        /\ ki[2] <= Len(TokensOf(segs[ki[1]]))
        /\ rstrip(TokensOf(segs[ki[1]])[ki[2]], Punctuation) # <<>>}

\* wb carries the recognizer's own timing of a surviving timed word.
FromTiming(wb, segs) ==
    \E kj \in SurvivingTimed(segs) :
        LET item == segs[kj[1]].words.items[kj[2]]
        IN /\ wb.word = CleanedWord(item.word)
           /\ wb.start.n = item.start * wb.start.d
           /\ wb.end.n = item.end * wb.end.d

\* wb is token i of the n tokens of a segment, timed
\* [start + i*span/n, start + (i+1)*span/n].
FromEvenSplit(wb, segs) ==
    \E ki \in SurvivingTokens(segs) :
        LET seg == segs[ki[1]]
            n == Len(TokensOf(seg))
            i == ki[2] - 1
            span == seg.end - seg.start
        IN /\ wb.word = rstrip(TokensOf(seg)[ki[2]], Punctuation)
           /\ wb.start.n * n = (seg.start * n + i * span) * wb.start.d
           /\ wb.end.n * n = (seg.start * n + (i + 1) * span) * wb.end.d

WordsCalled == called = "words_from_faster_whisper"

\* C9 as stated: the even split is used only when no segment provided
\* word-level timings; as soon as one did, no word of the result comes from
\* an even split.
C9_AsStated ==
    WordsCalled =>
        /\ (\E k \in 1..Len(segments) : ProvidedTimings(segments, k)) =>
               \A x \in 1..Len(words) : ~FromEvenSplit(words[x], segments)
        /\ \A x \in 1..Len(words) : IsCleaned(words[x].word)

\* C9 (amended): the even split is all-or-nothing on the surviving timed
\* words.  When some timed word of some segment is non-empty once cleaned,
\* the result is exactly the surviving timed words with the recognizer's
\* timings and no word comes from an even split; when none is (no segment
\* has word timings, or every timed word cleans to empty), the result is
\* exactly the surviving tokens of every segment, token i of n timed
\* [start + i*span/n, start + (i+1)*span/n].  Every word of the result is
\* lowercased, has no trailing .,!?;: and is not empty.
C9_AllOrNothingOnSurvivors ==
    WordsCalled =>
        /\ SurvivingTimed(segments) # {} =>
               /\ Len(words) = Cardinality(SurvivingTimed(segments))
               /\ \A x \in 1..Len(words) :
                      /\ FromTiming(words[x], segments)
                      /\ ~FromEvenSplit(words[x], segments)
        /\ SurvivingTimed(segments) = {} =>
               /\ Len(words) = Cardinality(SurvivingTokens(segments))
               /\ \A x \in 1..Len(words) : FromEvenSplit(words[x], segments)
        /\ \A x \in 1..Len(words) : IsCleaned(words[x].word)

\* A segment provided word timings that all clean to empty, another
\* provided surviving text, and the result holds even-split words.
C9_Witness ==
    /\ WordsCalled
    /\ \E k \in 1..Len(segments) : ProvidedTimings(segments, k)
    /\ SurvivingTimed(segments) = {}
    /\ Len(words) = 3
    /\ \A x \in 1..Len(words) : FromEvenSplit(words[x], segments)

\* Timed words survive in one segment while another has only text: the
\* result holds the timed words alone.
C9_TimedOnly ==
    /\ WordsCalled
    /\ Len(segments) = 2
    /\ SurvivingTimed(segments) # {}
    /\ segments[2].words = NoWords /\ segments[2].text = StrTheFox
    /\ Len(words) = 2

====
